---- MODULE Spec2Model ----
(***************************************************************************)
(* instaseis/source.py: Source, ForceSource and Receiver objects, the      *)
(* source time function (sliprate) of a Source, and structural equality.   *)
(*                                                                         *)
(* Numbers.  A Python float is modelled as an exact rational <<n, d>> with *)
(* d > 0 in lowest terms.  The one value outside the rationals is          *)
(* NonFinite == <<0, 0>>: the inf / nan that numpy produces when a float   *)
(* array is divided by a zero integral.  It is absorbing in arithmetic.    *)
(*                                                                         *)
(* Optional values.  Python's None is the empty tuple <<>>, and a value x  *)
(* that is present is the one-element tuple <<x>>.                         *)
(*                                                                         *)
(* Arrays.  A sliprate argument is [dtype, data]: np.array keeps the       *)
(* element type of the list it is built from ("int" for a list of Python   *)
(* ints, "float" for a list of floats), and the in-place division of       *)
(* set_sliprate depends on it.  No later operation reads the element type  *)
(* of a stored array, so the sliprate attribute holds the data alone.      *)
(***************************************************************************)
EXTENDS Integers, Sequences, FiniteSets, TLC

VARIABLES
    a,      \* the object under test (its __dict__ plus its class)
    b,      \* a second object, the right operand of a comparison
    ctor,   \* the arguments the constructor of a was called with
    ret,    \* the last call made on a: its name, arguments and outcome
    again,  \* whether the last call repeated the resample_sliprate call
            \* before it, the same arguments given twice in a row
    calls   \* resample_sliprate calls made since sliprate was last assigned
            \* by the constructor or by set_sliprate

vars == <<a, b, ctor, ret, again, calls>>

-----------------------------------------------------------------------------
(* Bounds of the model *)

\* longest sliprate list handed to the constructor or to set_sliprate
MaxLen == 3

\* largest nsamp handed to resample_sliprate
MaxNsamp == 5

\* longest run of resample_sliprate calls on one sliprate (every call can
\* halve the samples again, so the runs have to end)
MaxCalls == 2

-----------------------------------------------------------------------------
(* Optional values and exact rational arithmetic *)

None == <<>>

Some(x) == <<x>>

NonFinite == <<0, 0>>

Abs(i) == IF i < 0 THEN -i ELSE i

RECURSIVE GCD(_, _)
GCD(m, n) == IF n = 0 THEN m ELSE GCD(n, m % n)

\* the rational n/d (d # 0) in lowest terms with a positive denominator
Rat(n, d) ==
    LET g == GCD(Abs(n), Abs(d))
        s == IF d < 0 THEN -1 ELSE 1
    IN  <<(s * n) \div g, (s * d) \div g>>

R(i) == <<i, 1>>

IsFinite(x) == x[2] # 0

RAdd(x, y) ==
    IF IsFinite(x) /\ IsFinite(y)
    THEN Rat(x[1] * y[2] + y[1] * x[2], x[2] * y[2]) ELSE NonFinite

RSub(x, y) ==
    IF IsFinite(x) /\ IsFinite(y)
    THEN Rat(x[1] * y[2] - y[1] * x[2], x[2] * y[2]) ELSE NonFinite

RMul(x, y) ==
    IF IsFinite(x) /\ IsFinite(y)
    THEN Rat(x[1] * y[1], x[2] * y[2]) ELSE NonFinite

\* IEEE division: a zero divisor gives inf or nan, never an exception
RDiv(x, y) ==
    IF IsFinite(x) /\ IsFinite(y) /\ y[1] # 0
    THEN Rat(x[1] * y[2], x[2] * y[1]) ELSE NonFinite

\* comparisons of finite rationals
RLt(x, y) == x[1] * y[2] < y[1] * x[2]

RLe(x, y) == x[1] * y[2] <= y[1] * x[2]

\* a C cast from float to integer: truncation toward zero
RTrunc(x) ==
    IF ~IsFinite(x) THEN NonFinite
    ELSE IF x[1] >= 0 THEN R(x[1] \div x[2]) ELSE R(-((-x[1]) \div x[2]))

-----------------------------------------------------------------------------
(* numpy: arrays, linspace, interp, trapz *)

\* a sliprate argument: a list whose elements are Python ints or floats
List(dtype, data) == [dtype |-> dtype, data |-> data]

\* np.linspace(0, stop, num, endpoint=False): num samples k * (stop / num),
\* k = 0 .. num-1, the endpoint stop left out
Linspace(stop, num) ==
    [k \in 1..num |-> RMul(R(k - 1), RDiv(stop, R(num)))]

\* the bisection of np.interp: the number of sample points <= x, i.e. the
\* (1-based) index of the last sample point not after x; xp is non-decreasing
SearchSorted(x, xp) == Cardinality({k \in 1..Len(xp) : RLe(xp[k], x)})

\* an interpolation that takes the sample before x instead of the chord
InterpPrevious(x, xp, fp) ==
    LET n == Len(xp)
        j == SearchSorted(x, xp)
    IN  IF RLt(xp[n], x) THEN fp[n]
        ELSE IF j = 0 THEN fp[1]
        ELSE fp[j]

\* an interpolation that continues the last chord right of the sample points
\* instead of holding fp[-1]
InterpExtrapolating(x, xp, fp) ==
    LET n == Len(xp)
        j == SearchSorted(x, xp)
    IN  IF RLt(xp[n], x)
        THEN IF n = 1 THEN fp[n]
             ELSE LET slope == RDiv(RSub(fp[n], fp[n - 1]), RSub(xp[n], xp[n - 1]))
                  IN  RAdd(RMul(slope, RSub(x, xp[n])), fp[n])
        ELSE IF j = 0 THEN fp[1]
        ELSE IF j = n THEN fp[n]
        ELSE LET slope == RDiv(RSub(fp[j + 1], fp[j]), RSub(xp[j + 1], xp[j]))
             IN  RAdd(RMul(slope, RSub(x, xp[j])), fp[j])

\* np.interp(x, xp, fp) at one point x: fp[-1] right of the sample points,
\* fp[0] left of them, the chord through the two neighbours between them
Interp(x, xp, fp) ==
    LET n == Len(xp)
        j == SearchSorted(x, xp)
    IN  IF RLt(xp[n], x) THEN fp[n]
        ELSE IF j = 0 THEN fp[1]
        ELSE IF j = n THEN fp[n]
        ELSE LET slope == RDiv(RSub(fp[j + 1], fp[j]), RSub(xp[j + 1], xp[j]))
             IN  RAdd(RMul(slope, RSub(x, xp[j])), fp[j])

RECURSIVE SumSeq(_)
SumSeq(s) == IF s = <<>> THEN R(0) ELSE RAdd(Head(s), SumSeq(Tail(s)))

\* np.trapz(y, dx=dx): (dx * (y[1:] + y[:-1]) / 2.0).sum()
Trapz(y, dx) ==
    SumSeq([k \in 1..(IF Len(y) = 0 THEN 0 ELSE Len(y) - 1) |->
               RDiv(RMul(dx, RAdd(y[k + 1], y[k])), R(2))])

\* what "int_array /= float" does: numpy from 1.10 on refuses the cast of
\* the float quotient back into the int array (TypeError); older releases
\* cast it unsafely, truncating every quotient
InplaceCasts == {"same_kind", "unsafe"}

-----------------------------------------------------------------------------
(* class Source *)

\* SourceOrReceiver.__init__ and Source.__init__
SourceInit(latitude, longitude, depth_in_m, m_rr, m_tt, m_pp, m_rt, m_rp, m_tp, time_shift, sliprate, dt) ==
    [type |-> "Source",
     latitude |-> latitude, longitude |-> longitude,
     depth_in_m |-> depth_in_m,
     m_rr |-> m_rr, m_tt |-> m_tt, m_pp |-> m_pp,
     m_rt |-> m_rt, m_rp |-> m_rp, m_tp |-> m_tp,
     time_shift |-> time_shift,
     sliprate |-> IF sliprate # None THEN Some(sliprate[1].data) ELSE None,
     dt |-> dt]

\* An angle is named by the tangent of its half: <<p, q>> is the angle
\* 2 * atan2(p, q), so that <<0, 1>> is 0 degrees, <<1, 1>> is 90, <<1, 0>> is
\* 180 and <<-1, 1>> is 270.  These are the angles whose sine and cosine are
\* both rational.
Deg0 == <<0, 1>>

Deg90 == <<1, 1>>

Deg180 == <<1, 0>>

Deg270 == <<-1, 1>>

\* np.sin(np.deg2rad(x)) in exact arithmetic
SinDeg(x) == Rat(2 * x[1] * x[2], x[1] * x[1] + x[2] * x[2])

\* np.cos(np.deg2rad(x)) in exact arithmetic
CosDeg(x) == Rat(x[2] * x[2] - x[1] * x[1], x[1] * x[1] + x[2] * x[2])

\* the angle 2. * x: the tangent of its half is tan(x)
Double(x) == <<2 * x[1] * x[2], x[2] * x[2] - x[1] * x[1]>>

\* -x for a float x
RNeg(x) == RSub(R(0), x)

\* a conversion that takes sin(delta) for sin(2 delta) in m_rr
FromStrikeDipRakeSingleDip(latitude, longitude, depth_in_m, strike, dip, rake, M0, time_shift, sliprate, dt) ==
    LET sphi == SinDeg(strike)              cphi == CosDeg(strike)
        s2phi == SinDeg(Double(strike))     c2phi == CosDeg(Double(strike))
        sdel == SinDeg(dip)                 cdel == CosDeg(dip)
        s2del == SinDeg(Double(dip))        c2del == CosDeg(Double(dip))
        slam == SinDeg(rake)                clam == CosDeg(rake)
        m_tt == RMul(RSub(RMul(RMul(RNeg(sdel), clam), s2phi),
                          RMul(RMul(s2del, RMul(sphi, sphi)), slam)), M0)
        m_pp == RMul(RSub(RMul(RMul(sdel, clam), s2phi),
                          RMul(RMul(s2del, RMul(cphi, cphi)), slam)), M0)
        m_rr == RMul(RMul(sdel, slam), M0)
        m_rp == RMul(RAdd(RMul(RMul(RNeg(cphi), slam), c2del),
                          RMul(RMul(cdel, clam), sphi)), M0)
        m_rt == RMul(RSub(RMul(RMul(RNeg(slam), sphi), c2del),
                          RMul(RMul(cdel, clam), cphi)), M0)
        m_tp == RMul(RSub(RMul(RMul(RNeg(sdel), clam), c2phi),
                          RDiv(RMul(RMul(s2del, s2phi), slam), R(2))), M0)
    IN  SourceInit(latitude, longitude, depth_in_m, m_rr, m_tt, m_pp, m_rt,
                   m_rp, m_tp, time_shift, sliprate, dt)

\* Source.from_strike_dip_rake
FromStrikeDipRake(latitude, longitude, depth_in_m, strike, dip, rake, M0, time_shift, sliprate, dt) ==
    LET sphi == SinDeg(strike)              cphi == CosDeg(strike)
        s2phi == SinDeg(Double(strike))     c2phi == CosDeg(Double(strike))
        sdel == SinDeg(dip)                 cdel == CosDeg(dip)
        s2del == SinDeg(Double(dip))        c2del == CosDeg(Double(dip))
        slam == SinDeg(rake)                clam == CosDeg(rake)
        m_tt == RMul(RSub(RMul(RMul(RNeg(sdel), clam), s2phi),
                          RMul(RMul(s2del, RMul(sphi, sphi)), slam)), M0)
        m_pp == RMul(RSub(RMul(RMul(sdel, clam), s2phi),
                          RMul(RMul(s2del, RMul(cphi, cphi)), slam)), M0)
        m_rr == RMul(RMul(s2del, slam), M0)
        m_rp == RMul(RAdd(RMul(RMul(RNeg(cphi), slam), c2del),
                          RMul(RMul(cdel, clam), sphi)), M0)
        m_rt == RMul(RSub(RMul(RMul(RNeg(slam), sphi), c2del),
                          RMul(RMul(cdel, clam), cphi)), M0)
        m_tp == RMul(RSub(RMul(RMul(RNeg(sdel), clam), c2phi),
                          RDiv(RMul(RMul(s2del, s2phi), slam), R(2))), M0)
    IN  SourceInit(latitude, longitude, depth_in_m, m_rr, m_tt, m_pp, m_rt,
                   m_rp, m_tp, time_shift, sliprate, dt)

\* Source.tensor
Tensor(self) ==
    <<self.m_rr, self.m_tt, self.m_pp, self.m_rt, self.m_rp, self.m_tp>>

\* a Voigt view that leaves m_rt and m_rp in the order of tensor
TensorVoigtUnswapped(self) ==
    <<self.m_tt, self.m_pp, self.m_rr, self.m_rt, self.m_rp, self.m_tp>>

\* Source.tensor_voigt
TensorVoigt(self) ==
    <<self.m_tt, self.m_pp, self.m_rr, self.m_rp, self.m_rt, self.m_tp>>

\* the division of set_sliprate, "self.sliprate /= np.trapz(sliprate, dx=dt)",
\* when it completes: every sample divided by the integral, and cast back to
\* the array's own element type
Normalized(sliprate, dt) ==
    LET integral == Trapz(sliprate.data, dt)
    IN  [k \in 1..Len(sliprate.data) |->
            IF sliprate.dtype = "int"
            THEN RTrunc(RDiv(sliprate.data[k], integral))
            ELSE RDiv(sliprate.data[k], integral)]

\* whether the in-place division of set_sliprate raises TypeError
DivideRaises(sliprate, cast) == sliprate.dtype = "int" /\ cast = "same_kind"

\* a set_sliprate that assigns its dt and time_shift arguments to each
\* other's attribute
SetSliprateSwapping(self, sliprate, dt, time_shift, normalize, cast) ==
    IF normalize /\ DivideRaises(sliprate, cast)
    THEN [self EXCEPT !.sliprate = Some(sliprate.data)]
    ELSE [self EXCEPT !.sliprate = Some(IF normalize
                                        THEN Normalized(sliprate, dt)
                                        ELSE sliprate.data),
                      !.dt = time_shift,
                      !.time_shift = Some(dt)]

\* Source.set_sliprate, on a build whose in-place cast rule is cast.  When the
\* division raises, the assignment before it has already happened and the
\* two after it have not.
SetSliprateResult(self, sliprate, dt, time_shift, normalize, cast) ==
    IF normalize /\ DivideRaises(sliprate, cast)
    THEN [self EXCEPT !.sliprate = Some(sliprate.data)]
    ELSE [self EXCEPT !.sliprate = Some(IF normalize
                                        THEN Normalized(sliprate, dt)
                                        ELSE sliprate.data),
                      !.dt = Some(dt),
                      !.time_shift = time_shift]

\* the outcomes of Source.set_sliprate over the builds: the object after the
\* call and whether the call raised
SetSliprateOutcomes(self, sliprate, dt, time_shift, normalize) ==
    {[self |-> SetSliprateResult(self, sliprate, dt, time_shift, normalize, cast),
      raised |-> normalize /\ DivideRaises(sliprate, cast)] :
        cast \in InplaceCasts}

\* whether Source.resample_sliprate raises: len(None), None * int, or
\* np.interp on an empty array of sample points
ResampleRaises(self) ==
    \/ self.sliprate = None
    \/ self.dt = None
    \/ Len(self.sliprate[1]) = 0

\* the time axis of the new samples in resample_sliprate
TNew(dt, nsamp) == Linspace(RMul(R(nsamp), dt), nsamp)

\* an old time axis that runs up to and including self.dt * len(sliprate),
\* as np.linspace does when endpoint=False is left out
TOldWithEndpoint(self) ==
    LET n == Len(self.sliprate[1])
        stop == RMul(self.dt[1], R(n))
    IN  [k \in 1..n |->
            IF n = 1 THEN R(0) ELSE RMul(R(k - 1), RDiv(stop, R(n - 1)))]

\* the time axis of the old samples in resample_sliprate
TOld(self) ==
    Linspace(RMul(self.dt[1], R(Len(self.sliprate[1]))), Len(self.sliprate[1]))

\* a resample_sliprate that does not assign self.dt
ResampleSliprateKeepingDt(self, dt, nsamp) ==
    IF ResampleRaises(self) THEN self
    ELSE LET t_new == TNew(dt, nsamp)
             t_old == Linspace(RMul(self.dt[1], R(Len(self.sliprate[1]))),
                               Len(self.sliprate[1]))
             fp == self.sliprate[1]
         IN  [self EXCEPT
                 !.sliprate = Some([k \in 1..nsamp |->
                                       Interp(t_new[k], t_old, fp)])]

\* Source.resample_sliprate
ResampleSliprateResult(self, dt, nsamp) ==
    IF ResampleRaises(self) THEN self
    ELSE LET t_new == TNew(dt, nsamp)
             t_old == TOld(self)
             fp == self.sliprate[1]
         IN  [self EXCEPT
                 !.sliprate = Some([k \in 1..nsamp |->
                                       Interp(t_new[k], t_old, fp)]),
                 !.dt = Some(dt)]

-----------------------------------------------------------------------------
(* The inputs the operations are called with *)

\* all lists over the sample values S of length 0 .. n
RECURSIVE ListsUpTo(_, _)
ListsUpTo(S, n) ==
    IF n = 0 THEN {<<>>}
    ELSE LET shorter == ListsUpTo(S, n - 1)
         IN  shorter \cup
             {Append(l, R(v)) : l \in {s \in shorter : Len(s) = n - 1}, v \in S}

\* the sliprate arguments with samples in S: lists of Python ints and lists
\* of Python floats
SliprateArgs(S) ==
    {l \in {List(dtype, data) :
                dtype \in {"int", "float"}, data \in ListsUpTo(S, MaxLen)} :
        \* np.array([]) is an array of floats
        l.data = <<>> => l.dtype = "float"}

\* pulses, of zeros and ones, and boxcars, of ones only
Pulses == SliprateArgs({0, 1})

Boxcars == SliprateArgs({1})

\* the dt argument of set_sliprate and resample_sliprate: a number, which the
\* code does not require to be positive.  A negative dt (a decreasing time
\* axis, on which np.interp is unspecified) is not among the inputs.
DtArgs == {R(0), <<1, 2>>, R(1)}

TimeShiftArgs == {None, Some(R(3))}

\* latitude, longitude, depth_in_m
Places == {<<10, 20, None>>, <<-5, 30, Some(100)>>}

\* m_rr, m_tt, m_pp, m_rt, m_rp, m_tp
Moments == {<<R(1), R(2), R(3), R(4), R(5), R(6)>>}

\* strike, dip, rake, M0
Faults == {<<Deg0, Deg90, Deg0, R(2)>>}

-----------------------------------------------------------------------------
(* The life of one Source: construction, then set_sliprate and             *)
(* resample_sliprate in any order                                          *)

Call(op, sliprate, dt, time_shift, normalize, nsamp, raised) ==
    [op |-> op, sliprate |-> sliprate, dt |-> dt, time_shift |-> time_shift,
     normalize |-> normalize, nsamp |-> nsamp, raised |-> raised]

\* the constructor arguments that no method assigns again
Given(self) ==
    [latitude |-> self.latitude, longitude |-> self.longitude,
     depth_in_m |-> self.depth_in_m,
     m_rr |-> self.m_rr, m_tt |-> self.m_tt, m_pp |-> self.m_pp,
     m_rt |-> self.m_rt, m_rp |-> self.m_rp, m_tp |-> self.m_tp]

Constructed(self, op, time_shift, sliprate, dt) ==
    /\ a = self
    /\ b = None
    /\ ctor = Given(self)
    /\ ret = Call(op, sliprate, dt, time_shift, FALSE, 0, FALSE)
    /\ again = FALSE
    /\ calls = 0

\* Source(latitude, longitude, depth_in_m, m_rr, ..., time_shift, sliprate, dt)
InitDirect(S) ==
    \E p \in Places, m \in Moments, time_shift \in TimeShiftArgs,
       sliprate \in {None} \cup {Some(l) : l \in S},
       dt \in {None} \cup {Some(d) : d \in DtArgs} :
        Constructed(SourceInit(p[1], p[2], p[3], m[1], m[2], m[3], m[4], m[5],
                               m[6], time_shift, sliprate, dt),
                    "__init__", time_shift, sliprate, dt)

\* Source.from_strike_dip_rake(latitude, ..., strike, dip, rake, M0, ...)
InitStrikeDipRake(S) ==
    \E p \in Places, f \in Faults, time_shift \in TimeShiftArgs,
       sliprate \in {None} \cup {Some(l) : l \in S},
       dt \in {None} \cup {Some(d) : d \in DtArgs} :
        Constructed(FromStrikeDipRake(p[1], p[2], p[3], f[1], f[2], f[3], f[4],
                                      time_shift, sliprate, dt),
                    "from_strike_dip_rake", time_shift, sliprate, dt)

SetSliprate(sliprate, dt, time_shift, normalize) ==
    \E out \in SetSliprateOutcomes(a, sliprate, dt, time_shift, normalize) :
        /\ a' = out.self
        /\ ret' = Call("set_sliprate", Some(sliprate), Some(dt), time_shift,
                       normalize, 0, out.raised)
        /\ again' = FALSE
        /\ calls' = 0
        /\ UNCHANGED <<b, ctor>>

ResampleSliprate(dt, nsamp) ==
    /\ calls < MaxCalls
    /\ a' = ResampleSliprateResult(a, dt, nsamp)
    /\ ret' = Call("resample_sliprate", None, Some(dt), None, FALSE, nsamp,
                   ResampleRaises(a))
    /\ again' = (/\ ret.op = "resample_sliprate"
                  /\ ret.dt = Some(dt)
                  /\ ret.nsamp = nsamp)
    /\ calls' = calls + 1
    /\ UNCHANGED <<b, ctor>>

DoSetSliprate(S, T) ==
    \E sliprate \in S, dt \in DtArgs, time_shift \in T, normalize \in BOOLEAN :
        SetSliprate(sliprate, dt, time_shift, normalize)

DoResampleSliprate ==
    \E dt \in DtArgs, nsamp \in 0..MaxNsamp : ResampleSliprate(dt, nsamp)

\* Any construction, then both methods in any order, on boxcar sliprates
Init == InitDirect(Boxcars) \/ InitStrikeDipRake(Boxcars)

Next == DoSetSliprate(Boxcars, TimeShiftArgs) \/ DoResampleSliprate

Spec == Init /\ [][Next]_vars

\* Construction with a pulse, then resample_sliprate again and again
InitResample ==
    \E time_shift \in TimeShiftArgs,
       sliprate \in {None} \cup {Some(l) : l \in {s \in Pulses : s.dtype = "float"}},
       dt \in {None} \cup {Some(d) : d \in DtArgs} :
        Constructed(SourceInit(10, 20, Some(100), 1, 2, 3, 4, 5, 6,
                               time_shift, sliprate, dt),
                    "__init__", time_shift, sliprate, dt)

NextResample == DoResampleSliprate

SpecResample == InitResample /\ [][NextResample]_vars

\* Construction without a sliprate, then set_sliprate(sliprate, dt,
\* normalize=...) with pulses, time_shift left at its default
InitSet ==
    \E time_shift \in TimeShiftArgs :
        Constructed(SourceInit(10, 20, Some(100), 1, 2, 3, 4, 5, 6,
                               time_shift, None, None),
                    "__init__", time_shift, None, None)

NextSet == DoSetSliprate(Pulses, {None})

SpecSet == InitSet /\ [][NextSet]_vars

-----------------------------------------------------------------------------
(* class ForceSource, class Receiver *)

\* SourceOrReceiver.__init__ and ForceSource.__init__
ForceSourceInit(latitude, longitude, depth_in_m, f_r, f_t, f_p) ==
    [type |-> "ForceSource",
     latitude |-> latitude, longitude |-> longitude,
     depth_in_m |-> depth_in_m,
     f_r |-> f_r, f_t |-> f_t, f_p |-> f_p]

\* ForceSource.force_tpr
ForceTpr(self) == <<self.f_t, self.f_p, self.f_r>>

\* ForceSource.force_rtp
ForceRtp(self) == <<self.f_t, self.f_p, self.f_r>>

\* SourceOrReceiver.__init__ and Receiver.__init__: "network or ''"
ReceiverInit(latitude, longitude, network, station, depth_in_m) ==
    [type |-> "Receiver",
     latitude |-> latitude, longitude |-> longitude,
     depth_in_m |-> depth_in_m,
     network |-> IF network = None THEN "" ELSE network[1],
     station |-> IF station = None THEN "" ELSE station[1]]

-----------------------------------------------------------------------------
(* SourceOrReceiver.__eq__ and __ne__                                      *)
(*                                                                         *)
(* The outcome of a comparison is "True", "False" or "ValueError" (the     *)
(* exception bool() raises on an array of several elements).  Where numpy  *)
(* releases differ, an operator yields the set of the outcomes.            *)

\* the attributes of an object in the order __init__ assigns them
Attributes(self) ==
    CASE self.type = "Source" ->
            <<"latitude", "longitude", "depth_in_m", "m_rr", "m_tt", "m_pp",
              "m_rt", "m_rp", "m_tp", "time_shift", "sliprate", "dt">>
      [] self.type = "ForceSource" ->
            <<"latitude", "longitude", "depth_in_m", "f_r", "f_t", "f_p">>
      [] self.type = "Receiver" ->
            <<"latitude", "longitude", "depth_in_m", "network", "station">>

Reverse(s) == [k \in 1..Len(s) |-> s[Len(s) + 1 - k]]

\* the orders in which the comparison of two __dict__s may visit the keys:
\* the dict's own order, which is the insertion order from Python 3.7 on and
\* the hash order before; either end of the attribute list may come first
KeyOrders(self) == {Attributes(self), Reverse(Attributes(self))}

\* bool(x == y) for two distinct numpy arrays x and y
ArraysEq(x, y) ==
    LET n == Len(x)
        m == Len(y)
        len == IF n = m THEN n ELSE IF n = 1 THEN m ELSE n
    IN  IF n # m /\ n # 1 /\ m # 1
        THEN \* shapes that do not broadcast: False, or an error from 1.25 on
             {"False", "ValueError"}
        ELSE IF len = 0
        THEN \* bool() of an empty array: False, or an error from 2.2 on
             {"False", "ValueError"}
        ELSE IF len > 1
        THEN {"ValueError"}
        ELSE IF x[1] = y[1] THEN {"True"} ELSE {"False"}

\* bool(x == None) for a numpy array x: None is compared as a scalar (False)
\* by the older releases and element by element by the newer ones
ArrayEqNone(x) ==
    IF Len(x) > 1 THEN {"False", "ValueError"} ELSE {"False"}

\* the comparison of the values of one key of two __dict__s
ValueEq(key, x, y) ==
    IF key = "sliprate"
    THEN IF x = None /\ y = None THEN {"True"}
         ELSE IF y = None THEN ArrayEqNone(x[1])
         ELSE IF x = None THEN ArrayEqNone(y[1])
         ELSE ArraysEq(x[1], y[1])
    ELSE IF x = y THEN {"True"} ELSE {"False"}

\* self.__dict__ == other.__dict__, the keys visited in the order keys: the
\* first value pair that is not equal decides
RECURSIVE DictEq(_, _, _)
DictEq(self, other, keys) ==
    IF keys = <<>> THEN {"True"}
    ELSE LET r == ValueEq(Head(keys), self[Head(keys)], other[Head(keys)])
         IN  (r \ {"True"}) \cup
             (IF "True" \in r THEN DictEq(self, other, Tail(keys)) ELSE {})

\* SourceOrReceiver.__eq__
Eq(self, other) ==
    IF self.type # other.type THEN {"False"}
    ELSE UNION {DictEq(self, other, keys) : keys \in KeyOrders(self)}

\* "not x" on what __eq__ returned
Not(r) == CASE r = "True" -> "False" [] r = "False" -> "True" [] OTHER -> r

\* SourceOrReceiver.__ne__
Ne(self, other) == {Not(r) : r \in Eq(self, other)}

-----------------------------------------------------------------------------
(* Two objects and their comparison *)

\* the twelve arguments of a Source that the others differ from in one place
BaseArgs == <<10, 20, None, 1, 2, 3, 4, 5, 6, None, None, Some(R(1))>>

\* another value for each of the arguments but sliprate
OtherArgs == <<11, 21, Some(100), 7, 7, 7, 7, 7, 7, Some(R(3)), None, None>>

SourceOf(args) ==
    SourceInit(args[1], args[2], args[3], args[4], args[5], args[6], args[7],
               args[8], args[9], args[10], args[11], args[12])

\* Sources that differ from the base in at most one scalar argument, each
\* with every sliprate
Sources ==
    {SourceOf([args EXCEPT ![11] = sliprate]) :
        args \in {BaseArgs} \cup
                 {[BaseArgs EXCEPT ![i] = OtherArgs[i]] : i \in 1..12},
        sliprate \in {None} \cup {Some(l) : l \in {s \in Pulses : s.dtype = "float"}}}

\* f_r, f_t, f_p
Forces == {<<f_r, f_t, f_p>> : f_r \in {0, 1, 2}, f_t \in {0, 1, 2}, f_p \in {0, 1, 2}}

ForceSources ==
    {ForceSourceInit(p[1], p[2], p[3], f[1], f[2], f[3]) :
        p \in Places, f \in Forces}

Receivers ==
    {ReceiverInit(p[1], p[2], network, station, p[3]) :
        p \in Places, network \in {None, Some("IU")},
        station \in {None, Some(""), Some("ANMO")}}

InitEq ==
    /\ a \in Sources \cup {f \in ForceSources : f.f_r = 1} \cup Receivers
    /\ b \in Sources \cup {f \in ForceSources : f.f_r = 1} \cup Receivers
    /\ ctor = None
    /\ ret = [op |-> "__init__", result |-> "None"]
    /\ again = FALSE
    /\ calls = 0

\* a == b
DoEq ==
    \E r \in Eq(a, b) :
        /\ ret' = [op |-> "__eq__", result |-> r]
        /\ UNCHANGED <<a, b, ctor, again, calls>>

\* a != b
DoNe ==
    \E r \in Ne(a, b) :
        /\ ret' = [op |-> "__ne__", result |-> r]
        /\ UNCHANGED <<a, b, ctor, again, calls>>

NextEq == DoEq \/ DoNe

SpecEq == InitEq /\ [][NextEq]_vars

-----------------------------------------------------------------------------
(* One ForceSource and its two views *)

InitForce ==
    /\ a \in ForceSources
    /\ b = None
    /\ ctor = None
    /\ ret = [op |-> "__init__", result |-> <<>>]
    /\ again = FALSE
    /\ calls = 0

DoForceTpr ==
    /\ ret' = [op |-> "force_tpr", result |-> ForceTpr(a)]
    /\ UNCHANGED <<a, b, ctor, again, calls>>

DoForceRtp ==
    /\ ret' = [op |-> "force_rtp", result |-> ForceRtp(a)]
    /\ UNCHANGED <<a, b, ctor, again, calls>>

NextForce == DoForceTpr \/ DoForceRtp

SpecForce == InitForce /\ [][NextForce]_vars

-----------------------------------------------------------------------------
(* Properties *)

\* dt is set and positive
Positive(dt) == dt # None /\ RLt(R(0), dt[1])

\* the step is a resample_sliprate call that returns
Resampled == ret'.op = "resample_sliprate" /\ ~ret'.raised

\* the time of the i-th new sample (i = 1 .. nsamp) of the call just made
NewTime(i) == RMul(R(i - 1), ret'.dt[1])

\* the time of the k-th old sample (k = 1 .. n) before the call
OldTime(k) == RMul(R(k - 1), a.dt[1])

\* C1: a == b is True exactly when a and b are of the same class and every
\* stored attribute of a equals that of b, and a != b is the negation of it
C1_EqualityIsStructural ==
    /\ ret.op = "__eq__" => ret.result = (IF a = b THEN "True" ELSE "False")
    /\ ret.op = "__ne__" => ret.result = (IF a = b THEN "False" ELSE "True")

Interpolates(v, dt_old, t, y) ==
    LET n == Len(v)
        at(k) == RMul(R(k - 1), dt_old)
    IN  IF RLe(at(n), t) THEN y = v[n]
        ELSE \E k \in 1..(n - 1) :
                /\ RLe(at(k), t) /\ RLe(t, at(k + 1))
                /\ RMul(y, dt_old) = RAdd(RMul(v[k], RSub(at(k + 1), t)),
                                          RMul(v[k + 1], RSub(t, at(k))))

\* C3: for a Source whose sliprate v has n >= 1 samples and whose dt is
\* dt_old > 0, resample_sliprate(dt_new, nsamp_new) makes sample i of the new
\* sliprate, for every i in [0, nsamp_new), the value of the piecewise-linear
\* interpolant of v at the time i * dt_new
C3_ResampleInterpolates ==
    [][(/\ ret'.op = "resample_sliprate"
        /\ a.sliprate # None /\ Positive(a.dt)
        /\ Len(a.sliprate[1]) >= 1)
          => /\ ~ret'.raised
             /\ Len(a'.sliprate[1]) = ret'.nsamp
             /\ \A i \in 1..ret'.nsamp :
                    Interpolates(a.sliprate[1], a.dt[1], NewTime(i),
                                 a'.sliprate[1][i])]_vars

\* the triangle [0, 1, 0] at dt = 1 resampled at dt = 1/2 to five samples
C3_Witness ==
    /\ ret.op = "resample_sliprate" /\ ~ret.raised /\ calls = 1
    /\ ret.dt = Some(<<1, 2>>) /\ ret.nsamp = 5
    /\ a.sliprate = Some(<<R(0), <<1, 2>>, R(1), <<1, 2>>, R(0)>>)

\* new sample i, after the last old time, is the last old sample
HeldAfterTheEnd(i) ==
    RLt(OldTime(Len(a.sliprate[1])), NewTime(i))
        => a'.sliprate[1][i] = a.sliprate[1][Len(a.sliprate[1])]

\* new sample i lies between the least and the greatest old sample
WithinOldRange(i) ==
    /\ \E k \in 1..Len(a.sliprate[1]) : RLe(a.sliprate[1][k], a'.sliprate[1][i])
    /\ \E k \in 1..Len(a.sliprate[1]) : RLe(a'.sliprate[1][i], a.sliprate[1][k])

\* C4 as stated: in resample_sliprate every new sample after the last old
\* sample time is the last old sample, a new sample at time 0 is the first
\* old sample, and no new sample lies outside the range of the old samples
C4_FlatExtension ==
    [][Resampled
          => \A i \in 1..ret'.nsamp :
                /\ HeldAfterTheEnd(i)
                /\ NewTime(i) = R(0) => a'.sliprate[1][i] = a.sliprate[1][1]
                /\ WithinOldRange(i)]_vars

\* C4: as stated, the new sample at time 0 being the first old sample when
\* the old dt is positive; with an old dt of 0 every old sample sits at time
\* 0 and the new sample at time 0 is the last old sample
C4_FlatExtensionPositiveDt ==
    [][Resampled
          => \A i \in 1..ret'.nsamp :
                /\ HeldAfterTheEnd(i)
                /\ NewTime(i) = R(0) =>
                      a'.sliprate[1][i] = (IF Positive(a.dt)
                                           THEN a.sliprate[1][1]
                                           ELSE a.sliprate[1][Len(a.sliprate[1])])
                /\ WithinOldRange(i)]_vars

\* a pulse of at most MaxLen samples that ends in 1, resampled at dt = 1 to
\* five samples: the samples after the old end hold the 1
C4_Witness ==
    /\ ret.op = "resample_sliprate" /\ ~ret.raised /\ calls = 1
    /\ ret.dt = Some(R(1)) /\ ret.nsamp = 5
    /\ a.sliprate[1][1] = R(0) /\ a.sliprate[1][4] = R(1) /\ a.sliprate[1][5] = R(1)

\* C5: a resample_sliprate(dt_new, nsamp_new) call that follows a call with
\* the same arguments leaves sliprate and dt as the first call left them
C5_ResampleIdempotent ==
    [][(/\ ret.op = "resample_sliprate" /\ ret'.op = "resample_sliprate"
        /\ ret'.dt = ret.dt /\ ret'.nsamp = ret.nsamp)
          => (a'.sliprate = a.sliprate /\ a'.dt = a.dt)]_vars

\* the second of two equal calls returned, on a sliprate that the first call
\* had interpolated between two samples
C5_Witness ==
    /\ again /\ ret.op = "resample_sliprate" /\ ~ret.raised
    /\ \E k \in 1..Len(a.sliprate[1]) : a.sliprate[1][k] = <<1, 2>>

\* C6: resample_sliprate(dt_new, nsamp_new) changes only sliprate and dt:
\* when it returns, sliprate has exactly nsamp_new samples and dt is dt_new,
\* and time_shift, the coordinates and the moment tensor are as before
C6_ResampleFrame ==
    [][ret'.op = "resample_sliprate"
          => /\ a'.time_shift = a.time_shift
             /\ Given(a') = Given(a)
             /\ a'.type = a.type
             /\ DOMAIN a' = DOMAIN a
             /\ ~ret'.raised => /\ Len(a'.sliprate[1]) = ret'.nsamp
                                /\ a'.dt = ret'.dt]_vars

\* a Source with a time_shift resampled to four samples at another dt
C6_Witness ==
    /\ ret.op = "resample_sliprate" /\ ~ret.raised /\ calls = 1
    /\ ret.nsamp = 4 /\ ret.dt = Some(<<1, 2>>)
    /\ a.time_shift = Some(R(3))
    /\ Len(a.sliprate[1]) = 4 /\ a.dt = Some(<<1, 2>>)

\* C7: after set_sliprate(values, dt, normalize=True), the integral of
\* values by the trapezoidal rule being non-zero, the stored sliprate is
\* values divided by that integral and its own integral is 1; after
\* normalize=False the stored sliprate is values
C7_SetSliprateNormalizes ==
    ret.op = "set_sliprate"
        => LET values == ret.sliprate[1].data
               integral == Trapz(values, ret.dt[1])
           IN  /\ (ret.normalize /\ IsFinite(integral) /\ integral # R(0))
                     => /\ a.sliprate =
                              Some([k \in 1..Len(values) |->
                                       RDiv(values[k], integral)])
                        /\ Trapz(a.sliprate[1], ret.dt[1]) = R(1)
               /\ ~ret.normalize => a.sliprate = Some(values)

\* C8: after any call set_sliprate(values, dt, time_shift, normalize) the dt
\* of the Source is the dt argument and its time_shift is the time_shift
\* argument, None included when the Source held a time_shift before
C8_SetSliprateStoresDtAndTimeShift ==
    ret.op = "set_sliprate"
        => (a.dt = ret.dt /\ a.time_shift = ret.time_shift)

\* C9: force_tpr returns [f_t, f_p, f_r] and force_rtp returns
\* [f_r, f_t, f_p], two orders of the same three stored components
C9_ForceViews ==
    /\ ret.op = "force_tpr" => ret.result = <<a.f_t, a.f_p, a.f_r>>
    /\ ret.op = "force_rtp" => ret.result = <<a.f_r, a.f_t, a.f_p>>

\* the places of tensor_voigt in tensor, counted from 1
VoigtOrder == <<2, 3, 1, 5, 4, 6>>

\* C10: tensor is [m_rr, m_tt, m_pp, m_rt, m_rp, m_tp] and tensor_voigt is
\* [m_tt, m_pp, m_rr, m_rp, m_rt, m_tp] of the values given at construction,
\* in every state; tensor_voigt is tensor read at the places 1, 2, 0, 4, 3, 5
C10_TensorViews ==
    /\ Tensor(a) = <<ctor.m_rr, ctor.m_tt, ctor.m_pp,
                     ctor.m_rt, ctor.m_rp, ctor.m_tp>>
    /\ TensorVoigt(a) = <<ctor.m_tt, ctor.m_pp, ctor.m_rr,
                          ctor.m_rp, ctor.m_rt, ctor.m_tp>>
    /\ TensorVoigt(a) = [k \in 1..6 |-> Tensor(a)[VoigtOrder[k]]]

\* a Source of six different components whose sliprate and dt two
\* resample_sliprate calls have replaced
C10_Witness ==
    /\ ret.op = "resample_sliprate" /\ ~ret.raised /\ calls = 2
    /\ Tensor(a) = <<R(1), R(2), R(3), R(4), R(5), R(6)>>
    /\ TensorVoigt(a) = <<R(2), R(3), R(1), R(5), R(4), R(6)>>
    /\ a.dt = Some(<<1, 2>>) /\ Len(a.sliprate[1]) = 4

-----------------------------------------------------------------------------
(* One Source from strike, dip, rake and M0, and its two tensor views *)

\* the angles 0, 90, 180, 270 and the angles of the 3-4-5 triangle in every
\* quadrant (36.87, 53.13, 126.87, 143.13 degrees and their negatives)
Angles ==
    {Deg0, Deg90, Deg180, Deg270,
     <<1, 3>>, <<-1, 3>>, <<1, 2>>, <<-1, 2>>, <<2, 1>>, <<-2, 1>>, <<3, 1>>, <<-3, 1>>}

\* the scalar moment M0
ScalarMoments == {R(0), R(1), R(2), <<-3, 2>>}

InitFault ==
    \E strike \in Angles, dip \in Angles, rake \in Angles, M0 \in ScalarMoments :
        /\ a = FromStrikeDipRake(10, 20, Some(100), strike, dip, rake, M0,
                                 None, None, None)
        /\ b = None
        /\ ctor = [strike |-> strike, dip |-> dip, rake |-> rake, M0 |-> M0]
        /\ ret = [op |-> "from_strike_dip_rake", result |-> <<>>]
        /\ again = FALSE
        /\ calls = 0

\* a.tensor
DoTensor ==
    /\ ret' = [op |-> "tensor", result |-> Tensor(a)]
    /\ UNCHANGED <<a, b, ctor, again, calls>>

\* a.tensor_voigt
DoTensorVoigt ==
    /\ ret' = [op |-> "tensor_voigt", result |-> TensorVoigt(a)]
    /\ UNCHANGED <<a, b, ctor, again, calls>>

NextFault == DoTensor \/ DoTensorVoigt

SpecFault == InitFault /\ [][NextFault]_vars

-----------------------------------------------------------------------------
(* _purge_duplicates, the decorator of Receiver.parse *)

\* longest list the undecorated Receiver.parse returns
MaxReceivers == 4

\* "item in new_list": some element of the list compares equal to item
Contains(new_list, item) ==
    \E k \in 1..Len(new_list) : "True" \in Eq(new_list[k], item)

\* a loop that looks at the last element kept only, as a purge of adjacent
\* duplicates does
RECURSIVE LoopAdjacent(_, _)
LoopAdjacent(ret_val, new_list) ==
    IF ret_val = <<>> THEN new_list
    ELSE IF new_list # <<>> /\ "True" \in Eq(new_list[Len(new_list)], Head(ret_val))
    THEN LoopAdjacent(Tail(ret_val), new_list)
    ELSE LoopAdjacent(Tail(ret_val), Append(new_list, Head(ret_val)))

\* the loop of the wrapper over what is left of ret_val
RECURSIVE Loop(_, _)
Loop(ret_val, new_list) ==
    IF ret_val = <<>> THEN new_list
    ELSE IF Contains(new_list, Head(ret_val))
    THEN Loop(Tail(ret_val), new_list)
    ELSE Loop(Tail(ret_val), Append(new_list, Head(ret_val)))

\* a wrapper that purges adjacent duplicates only
WrapperAdjacent(ret_val) == LoopAdjacent(ret_val, <<>>)

\* the wrapper that _purge_duplicates puts around f, applied to the list
\* ret_val that f returned
Wrapper(ret_val) == Loop(ret_val, <<>>)

\* the Receivers that Receiver.parse builds, Receiver(latitude, longitude,
\* network, station): one station, and three that differ from it in the
\* station, in the network and in the latitude
ParsedReceivers ==
    {ReceiverInit(10, 20, Some("IU"), Some("ANMO"), None),
     ReceiverInit(10, 20, Some("IU"), Some("COLA"), None),
     ReceiverInit(10, 20, Some("GE"), Some("ANMO"), None),
     ReceiverInit(11, 20, Some("IU"), Some("ANMO"), None)}

\* the lists of length n the undecorated Receiver.parse may return
ParsedLists(n) == [1..n -> ParsedReceivers]

\* b is the list the undecorated Receiver.parse returns
InitParse ==
    /\ a = None
    /\ b \in UNION {ParsedLists(n) : n \in 0..MaxReceivers}
    /\ ctor = None
    /\ ret = [op |-> "__init__", result |-> <<>>]
    /\ again = FALSE
    /\ calls = 0

\* Receiver.parse, as its callers see it
DoParse ==
    /\ ret' = [op |-> "parse", result |-> Wrapper(b)]
    /\ UNCHANGED <<a, b, ctor, again, calls>>

NextParse == DoParse

SpecParse == InitParse /\ [][NextParse]_vars

\* the place of the first occurrence of x in the list L
FirstIn(L, x) == CHOOSE k \in 1..Len(L) : L[k] = x /\ \A j \in 1..(k - 1) : L[j] # x

\* C12: for any list L of Receivers that the undecorated Receiver.parse
\* returns, the list that comes back through _purge_duplicates (a) holds no
\* two elements with all stored attributes equal, (b) holds an element equal
\* to every element of L, and (c) is the subsequence of L made of the first
\* occurrence of each element, in the order of these first occurrences
C12_PurgeDuplicates ==
    ret.op = "parse"
        => LET L == b
               P == ret.result
           IN  /\ \A i \in 1..Len(P) : \A j \in 1..Len(P) : i # j => P[i] # P[j]
               /\ \A k \in 1..Len(L) : \E i \in 1..Len(P) : P[i] = L[k]
               /\ \A i \in 1..Len(P) : \E k \in 1..Len(L) : P[i] = L[k]
               /\ \A i \in 1..Len(P) : \A j \in 1..Len(P) :
                      i < j => FirstIn(L, P[i]) < FirstIn(L, P[j])

\* a list of four with a duplicate that is not next to its first occurrence,
\* purged to three in the order of the first occurrences
C12_Witness ==
    /\ ret.op = "parse"
    /\ Len(b) = 4 /\ b[1] = b[3] /\ b[1] # b[2] /\ b[4] # b[1] /\ b[4] # b[2]
    /\ b[1].station = b[2].station /\ b[1].network # b[2].network
    /\ ret.result = <<b[1], b[2], b[4]>>

====
